---------------------------- MODULE Spec2Model ----------------------------
(***************************************************************************)
(* A model of notefreq.py: conversion between pitch names and frequencies. *)
(*                                                                         *)
(* A Python str is a sequence of characters; a character is a one-letter   *)
(* TLA+ string.  The two non-ASCII characters of the source are written    *)
(* "U+266F" (the sharp sign) and "U+266D" (the flat sign).                 *)
(***************************************************************************)
EXTENDS Integers, Sequences, FiniteSets, TLC

VARIABLES pc,        \* position of the run (main) or of the function call
          arg,       \* argument of the function under call (function specs)
          ret,       \* its result (function specs)
          input,     \* args.value, the command-line argument (main)
          val,       \* main: val
          midi,      \* main: midi
          freq,      \* main: freq
          cents,     \* main: cents
          stdout,    \* lines printed
          stderr,    \* diagnostics written at exit
          exitcode,  \* <<>> while the process runs, then <<its exit status>>
          called     \* the functions of the module main has called so far

vars == <<pc, arg, ret, input, val, midi, freq, cents, stdout, stderr,
          exitcode, called>>

None == "none"

(***************************************************************************)
(* Bounds of the model.                                                    *)
(***************************************************************************)
\* longest command-line argument
MaxLen == 4
\* most digits in the octave of a generated note name
MaxDigits == 2
\* pitch numbers -MaxPitch .. MaxPitch are formatted and parsed back
MaxPitch == 150
\* bits of a float's significand
MantBits == 14
\* freq_to_midi is applied to every float within ExpSpan binades of A4_FREQ's
ExpSpan == 1

(***************************************************************************)
(* Characters and strings.                                                 *)
(***************************************************************************)
SHARP == "U+266F"
FLAT == "U+266D"

Digits == <<"0", "1", "2", "3", "4", "5", "6", "7", "8", "9">>

LowerLetters == <<"a", "b", "c", "d", "e", "f", "g", "h", "i", "j", "k", "l", "m",
                  "n", "o", "p", "q", "r", "s", "t", "u", "v", "w", "x", "y", "z">>

UpperLetters == <<"A", "B", "C", "D", "E", "F", "G", "H", "I", "J", "K", "L", "M",
                  "N", "O", "P", "Q", "R", "S", "T", "U", "V", "W", "X", "Y", "Z">>

Range(s) == {s[i] : i \in DOMAIN s}

IsDigit(c) == c \in Range(Digits)

DigitValue(c) == (CHOOSE i \in DOMAIN Digits : Digits[i] = c) - 1

\* str.upper() on one character
UpperChar(c) ==
    IF c \in Range(LowerLetters)
    THEN UpperLetters[CHOOSE i \in DOMAIN LowerLetters : LowerLetters[i] = c]
    ELSE c

\* str.lower() on one character
LowerChar(c) ==
    IF c \in Range(UpperLetters)
    THEN LowerLetters[CHOOSE i \in DOMAIN UpperLetters : UpperLetters[i] = c]
    ELSE c

Upper(s) == [i \in DOMAIN s |-> UpperChar(s[i])]

Lower(s) == [i \in DOMAIN s |-> LowerChar(s[i])]

\* str.replace(old, new) for a one-character old and new
Replace(s, old, new) == [i \in DOMAIN s |-> IF s[i] = old THEN new ELSE s[i]]

\* s[:-1]
DropLast(s) == SubSeq(s, 1, Len(s) - 1)

\* whether sub occurs in s (Python's "sub in s")
Contains(s, sub) ==
    \E i \in 1..(Len(s) + 1) :
        /\ i + Len(sub) - 1 <= Len(s)
        /\ SubSeq(s, i, i + Len(sub) - 1) = sub

\* int() of a string of decimal digits
RECURSIVE DigitsToNat(_)
DigitsToNat(s) ==
    IF s = <<>> THEN 0
    ELSE 10 * DigitsToNat(DropLast(s)) + DigitValue(s[Len(s)])

\* int() of a string matching -?\d+
StrToInt(s) ==
    IF s[1] = "-" THEN 0 - DigitsToNat(Tail(s)) ELSE DigitsToNat(s)

RECURSIVE NatToStr(_)
NatToStr(n) ==
    IF n < 10 THEN <<Digits[n + 1]>>
    ELSE NatToStr(n \div 10) \o <<Digits[(n % 10) + 1]>>

\* str() of an int, as the f-string of midi_to_note formats the octave
IntToStr(n) == IF n < 0 THEN <<"-">> \o NatToStr(0 - n) ELSE NatToStr(n)

(***************************************************************************)
(* The constants of the module.                                            *)
(***************************************************************************)
A4_MIDI == 69

NOTE_NAMES == << <<"C">>, <<"C", "#">>, <<"D">>, <<"D", "#">>, <<"E">>, <<"F">>,
                 <<"F", "#">>, <<"G">>, <<"G", "#">>, <<"A">>, <<"A", "#">>, <<"B">> >>

\* the dict as its set of (key, value) pairs
ENHARMONICS == { << <<"D", "B">>, <<"C", "#">> >>,
                 << <<"E", "B">>, <<"D", "#">> >>,
                 << <<"G", "B">>, <<"F", "#">> >>,
                 << <<"A", "B">>, <<"G", "#">> >>,
                 << <<"B", "B">>, <<"A", "#">> >> }

\* dict.get(key, default)
DictGet(d, key, default) ==
    IF \E kv \in d : kv[1] = key
    THEN (CHOOSE kv \in d : kv[1] = key)[2]
    ELSE default

(***************************************************************************)
(* note_re = ^([A-Ga-g])([bB#U+266D U+266F]?)(-?\d+)$                      *)
(***************************************************************************)
NoteLetters == {"A", "B", "C", "D", "E", "F", "G", "a", "b", "c", "d", "e", "f", "g"}

AccidentalChars == {"b", "B", "#", FLAT, SHARP}

\* -?\d+ against the whole of s
IsOctave(s) ==
    LET d == IF s # <<>> /\ s[1] = "-" THEN Tail(s) ELSE s
    IN  d # <<>> /\ \A i \in DOMAIN d : IsDigit(d[i])

\* $ matches at the end of the string and before a newline that ends it
BeforeEnd(s) ==
    IF s # <<>> /\ s[Len(s)] = "\n" THEN {s, DropLast(s)} ELSE {s}

\* note_re.match(s): the groups of the match, or no match.  The accidental is
\* optional and greedy; dropping it never rescues a match, since the octave
\* cannot start with an accidental character, so at most one match exists.
NoteMatch(s) ==
    LET ms == { <<t, a>> \in BeforeEnd(s) \X {0, 1} :
                   /\ Len(t) >= 1 + a
                   /\ t[1] \in NoteLetters
                   /\ a = 1 => t[2] \in AccidentalChars
                   /\ IsOctave(SubSeq(t, 2 + a, Len(t))) }
    IN  IF ms = {} THEN [matched |-> FALSE]
        ELSE LET m == CHOOSE x \in ms : TRUE
                 t == m[1]
                 a == m[2]
             IN  [matched |-> TRUE,
                  letter |-> <<t[1]>>,
                  accidental |-> SubSeq(t, 2, 1 + a),
                  octave |-> SubSeq(t, 2 + a, Len(t))]

(***************************************************************************)
(* note_to_midi.  The result is [ok, value, error, msg]: the pitch number  *)
(* when ok, else the class of the exception raised and its str(e).         *)
(***************************************************************************)
BadNoteMsg(name) == <<"B", "a", "d", " ", "n", "o", "t", "e", ":", " ">> \o name

\* str(e) of the ValueError list.index raises: "<repr(x)> is not in list"
NotInListMsg(x) ==
    <<"'">> \o x \o <<"'", " ", "i", "s", " ", "n", "o", "t", " ", "i", "n", " ",
                      "l", "i", "s", "t">>

\* a flat always read as the sharp of its own letter: the table is never used
PitchClassOf_NoTable(letter0, accidental0) ==
    Upper(letter0) \o (IF accidental0 = <<>> THEN <<>> ELSE <<"#">>)

\* lines 30-33: the pitch class, letter + accidental, after normalisation
PitchClassOf(letter0, accidental0) ==
    LET letter == Upper(letter0)
        accidental == Upper(Replace(Replace(accidental0, "b", "B"), "#", "#"))
    IN  IF accidental = <<"B">>
        THEN DropLast(DictGet(ENHARMONICS, letter \o <<"B">>, letter \o <<"#">>)) \o <<"#">>
        ELSE letter \o accidental

\* the octave offset forgotten
PitchNumber_NoOffset(octave, index) == 12 * octave + index

\* line 36
PitchNumber(octave, index) == 12 * (octave + 1) + index

note_to_midi(name) ==
    LET m == NoteMatch(Replace(Replace(name, SHARP, "#"), FLAT, "b"))
    IN  IF ~m.matched
        THEN [ok |-> FALSE, value |-> 0, error |-> "ValueError", msg |-> BadNoteMsg(name)]
        ELSE LET cls == PitchClassOf(m.letter, m.accidental)
             IN  IF cls \notin Range(NOTE_NAMES)
                 THEN [ok |-> FALSE, value |-> 0, error |-> "ValueError",
                       msg |-> NotInListMsg(cls)]
                 ELSE LET index == (CHOOSE i \in DOMAIN NOTE_NAMES : NOTE_NAMES[i] = cls) - 1
                      IN  [ok |-> TRUE, value |-> PitchNumber(StrToInt(m.octave), index),
                           error |-> "", msg |-> <<>>]

(***************************************************************************)
(* midi_to_note.  \div and % are floor division and its remainder, as      *)
(* Python's // and % are.                                                  *)
(***************************************************************************)
\* division truncating toward zero instead of flooring
OctaveOf_Trunc(m) == (IF m < 0 THEN 0 - ((0 - m) \div 12) ELSE m \div 12) - 1

OctaveOf(m) == m \div 12 - 1

midi_to_note(m) == NOTE_NAMES[(m % 12) + 1] \o IntToStr(OctaveOf(m))

(***************************************************************************)
(* Python's float.  A float is [cls, neg, m, e]: cls is "nan", "inf" or    *)
(* "fin"; a finite float is (-1)^neg * m * 2^e with m = 0 (a zero) or      *)
(* 2^(MantBits-1) <= m < 2^MantBits.  The exponent range is binary64's:    *)
(* a result of 2^1024 or more is an overflow, a result below 2^-1074 is 0. *)
(* The significand keeps MantBits bits where binary64 keeps 53 (TLC's      *)
(* integers are 32 bits wide), so the model's floats round more coarsely   *)
(* than Python's; every operation rounds to nearest, ties to even.         *)
(***************************************************************************)
NaN == [cls |-> "nan", neg |-> FALSE, m |-> 0, e |-> 0]

Inf(neg) == [cls |-> "inf", neg |-> neg, m |-> 0, e |-> 0]

Zero(neg) == [cls |-> "fin", neg |-> neg, m |-> 0, e |-> 0]

Fin(neg, m, e) == [cls |-> "fin", neg |-> neg, m |-> m, e |-> e]

\* number of bits of n > 0
BitLen(n) == CHOOSE k \in 1..30 : 2^(k - 1) <= n /\ n < 2^k

\* n / d rounded to the nearest integer, ties to the even one (n, d > 0 or
\* n < 0 < d): Python's round() on a float
RoundHalfEven(n, d) ==
    LET q == n \div d
        r == n % d
    IN  IF 2 * r > d \/ (2 * r = d /\ q % 2 = 1) THEN q + 1 ELSE q

\* the float nearest to (-1)^neg * n * 2^e, for an integer 0 < n < 2^30
Normalise(neg, n, e) ==
    LET len == BitLen(n)
        sh == len - MantBits
        m0 == IF sh > 0 THEN RoundHalfEven(n, 2^sh) ELSE n * 2^(0 - sh)
        up == m0 = 2^MantBits
        mm == IF up THEN 2^(MantBits - 1) ELSE m0
        ee == IF up THEN e + sh + 1 ELSE e + sh
    IN  IF ee + MantBits - 1 >= 1024 THEN Inf(neg)
        ELSE IF ee + MantBits - 1 < 0 - 1074 THEN Zero(neg)
        ELSE Fin(neg, mm, ee)

\* float(n) for an int n > 0
FromNat(n) == Normalise(FALSE, n, 0)

IsZero(x) == x.cls = "fin" /\ x.m = 0

\* x * y for finite x and y
Mul(x, y) ==
    IF IsZero(x) \/ IsZero(y) THEN Zero(x.neg # y.neg)
    ELSE Normalise(x.neg # y.neg, x.m * y.m, x.e + y.e)

\* x / y for finite x and y, y not zero: two more quotient bits than the
\* significand keeps, and a sticky bit for what is left
Div(x, y) ==
    IF IsZero(x) THEN Zero(x.neg # y.neg)
    ELSE LET n == x.m * 2^MantBits
             q == n \div y.m
             r1 == 2 * (n % y.m)
             g == IF r1 >= y.m THEN 1 ELSE 0
             r2 == r1 - g * y.m
             st == IF r2 # 0 THEN 1 ELSE 0
         IN  Normalise(x.neg # y.neg, 4 * q + 2 * g + st, x.e - y.e - MantBits - 2)

\* x <= 0, as Python compares floats: False for a NaN
LeZero(x) ==
    CASE x.cls = "nan" -> FALSE
      [] x.cls = "inf" -> x.neg
      [] x.cls = "fin" -> x.m = 0 \/ x.neg

A4_FREQ == FromNat(440)

(***************************************************************************)
(* math.log2 of a finite float x > 0, as a fixed-point number: the result  *)
(* counts units of 2^-LogBits.  The integer part is the exponent; each bit *)
(* of the fraction comes from squaring the significand.                    *)
(***************************************************************************)
LogBits == MantBits - 4

LogOne == 2^LogBits

RECURSIVE Log2Frac(_, _)
Log2Frac(x, k) ==
    IF k = 0 THEN 0
    ELSE LET y == (x * x) \div 2^(MantBits - 1)
         IN  IF y >= 2^MantBits
             THEN 2^(k - 1) + Log2Frac(y \div 2, k - 1)
             ELSE Log2Frac(y, k - 1)

Log2(x) == (x.e + MantBits - 1) * LogOne + Log2Frac(x.m, LogBits)

(***************************************************************************)
(* freq_to_midi.  The result is [ok |-> TRUE, midi, cents] or [ok |->      *)
(* FALSE, error]: midi is an int; cents counts units of 2^-LogBits cent.   *)
(***************************************************************************)
\* int(x): rounding toward zero instead of to the nearest integer
RoundToNearest_Trunc(n) == IF n < 0 THEN 0 - ((0 - n) \div LogOne) ELSE n \div LogOne

\* line 48: round(midi)
RoundToNearest(n) == RoundHalfEven(n, LogOne)

freq_to_midi(f) ==
    CASE f.cls = "nan" ->
           \* log2(nan) is nan; round(nan) raises ValueError
           [ok |-> FALSE, error |-> "ValueError", midi |-> 0, cents |-> 0]
      [] f.cls = "inf" /\ f.neg ->
           \* log2 of a negative number: math domain error
           [ok |-> FALSE, error |-> "ValueError", midi |-> 0, cents |-> 0]
      [] f.cls = "inf" /\ ~f.neg ->
           \* log2(inf) is inf; round(inf) raises OverflowError
           [ok |-> FALSE, error |-> "OverflowError", midi |-> 0, cents |-> 0]
      [] f.cls = "fin" ->
           LET q == Div(f, A4_FREQ)
           IN  IF IsZero(q) \/ q.neg
               THEN \* log2(0.0), log2 of a negative number: math domain error
                    [ok |-> FALSE, error |-> "ValueError", midi |-> 0, cents |-> 0]
               ELSE LET midi_ == 12 * Log2(q) + A4_MIDI * LogOne
                        nearest == RoundToNearest(midi_)
                    IN  [ok |-> TRUE, error |-> "",
                         midi |-> nearest,
                         cents |-> (midi_ - nearest * LogOne) * 100]

(***************************************************************************)
(* midi_to_freq.  2 ** x raises OverflowError when the power is 2^1024 or  *)
(* more, which is when x >= 1024; the product with A4_FREQ overflows to    *)
(* inf without an exception.  2^(r/12) is the r-th power of the semitone   *)
(* ratio, the float whose 12th power is nearest 2 from below.              *)
(***************************************************************************)
RECURSIVE Power(_, _)
Power(x, n) == IF n = 0 THEN FromNat(1) ELSE Mul(Power(x, n - 1), x)

\* x <= 2 for a finite x > 0
LeTwo(x) == x.e + MantBits - 1 < 1 \/ (x.e + MantBits - 1 = 1 /\ x.m = 2^(MantBits - 1))

RECURSIVE SemitoneBisect(_, _)
SemitoneBisect(lo, hi) ==
    IF hi - lo <= 1 THEN lo
    ELSE LET mid == (lo + hi) \div 2
         IN  IF LeTwo(Power(Fin(FALSE, mid, 1 - MantBits), 12))
             THEN SemitoneBisect(mid, hi)
             ELSE SemitoneBisect(lo, mid)

SemitoneRatio == Fin(FALSE, SemitoneBisect(2^(MantBits - 1), 2^MantBits), 1 - MantBits)

\* 2 ** (a / 12) for an int a with a / 12 < 1024
Exp2Twelfths(a) ==
    LET p == Power(SemitoneRatio, a % 12)
    IN  Normalise(FALSE, p.m, p.e + a \div 12)

midi_to_freq(m) ==
    LET a == m - A4_MIDI
    IN  IF a \div 12 >= 1024
        THEN [ok |-> FALSE, error |-> "OverflowError", freq |-> NaN]
        ELSE LET p == Exp2Twelfths(a)
             IN  [ok |-> TRUE, error |-> "",
                  freq |-> IF p.cls = "fin" THEN Mul(A4_FREQ, p) ELSE p]

(***************************************************************************)
(* The functions on their own: note_to_midi applied to a note name, and    *)
(* midi_to_note applied to a pitch number, its result parsed back.         *)
(***************************************************************************)
OctaveStrings ==
    UNION { [1..n -> Range(Digits)] : n \in 1..MaxDigits }

\* every string of the shape of note_re over the ASCII digits
NoteNames ==
    { <<l>> \o a \o s \o d :
        l \in NoteLetters,
        a \in {<<>>} \cup { <<c>> : c \in AccidentalChars },
        s \in {<<>>, <<"-">>},
        d \in OctaveStrings }

Pitches == (0 - MaxPitch)..MaxPitch

Idle ==
    /\ input = None /\ val = None /\ midi = None /\ freq = None /\ cents = None
    /\ stdout = <<>> /\ stderr = <<>> /\ exitcode = <<>> /\ called = {}

InitNote ==
    /\ \/ pc = "call note_to_midi" /\ arg \in NoteNames
       \/ pc = "call midi_to_note" /\ arg \in Pitches
    /\ ret = None
    /\ Idle

CallNoteToMidi ==
    /\ pc = "call note_to_midi"
    /\ ret' = note_to_midi(arg)
    /\ pc' = "returned"
    /\ UNCHANGED <<arg, input, val, midi, freq, cents, stdout, stderr, exitcode, called>>

CallMidiToNote ==
    /\ pc = "call midi_to_note"
    /\ ret' = [name |-> midi_to_note(arg)]
    /\ pc' = "formatted"
    /\ UNCHANGED <<arg, input, val, midi, freq, cents, stdout, stderr, exitcode, called>>

ParseBack ==
    /\ pc = "formatted"
    /\ ret' = [name |-> ret.name, parsed |-> note_to_midi(ret.name)]
    /\ pc' = "parsed back"
    /\ UNCHANGED <<arg, input, val, midi, freq, cents, stdout, stderr, exitcode, called>>

NextNote == CallNoteToMidi \/ CallMidiToNote \/ ParseBack

SpecNote == InitNote /\ [][NextNote]_vars

(***************************************************************************)
(* float(s): Python's grammar of a float literal over the characters of    *)
(* the model (no digit-grouping underscores, ASCII digits).  The result is *)
(* [ok, value]; not ok is the ValueError float() raises.  The decimal is   *)
(* converted by scaling the digits by ten, once per unit of the exponent.  *)
(***************************************************************************)
Whitespace == {" ", "\t", "\n", "\r", "\f"}

RECURSIVE LStrip(_)
LStrip(s) == IF s # <<>> /\ Head(s) \in Whitespace THEN LStrip(Tail(s)) ELSE s

RECURSIVE RStrip(_)
RStrip(s) == IF s # <<>> /\ s[Len(s)] \in Whitespace THEN RStrip(DropLast(s)) ELSE s

\* str.strip()
Strip(s) == RStrip(LStrip(s))

AllDigits(s) == \A i \in DOMAIN s : IsDigit(s[i])

RECURSIVE Scale10(_, _)
Scale10(x, k) ==
    IF x.cls # "fin" \/ IsZero(x) \/ k = 0 THEN x
    ELSE IF k > 0 THEN Scale10(Mul(x, FromNat(10)), k - 1)
    ELSE Scale10(Div(x, FromNat(10)), k + 1)

\* the decimal literal <ms>[e<es>], sign removed
ParseDecimal(neg, ms, hasExp, es) ==
    LET dots == {i \in DOMAIN ms : ms[i] = "."}
        dot == IF dots = {} THEN Len(ms) + 1 ELSE CHOOSE i \in dots : \A j \in dots : i <= j
        ip == SubSeq(ms, 1, dot - 1)
        fp == SubSeq(ms, dot + 1, Len(ms))
        ed == IF es # <<>> /\ es[1] \in {"+", "-"} THEN Tail(es) ELSE es
        okMant == AllDigits(ip) /\ AllDigits(fp) /\ Len(ip) + Len(fp) >= 1
        okExp == ~hasExp \/ (ed # <<>> /\ AllDigits(ed))
    IN  IF ~(okMant /\ okExp) THEN [ok |-> FALSE, value |-> NaN]
        ELSE LET mant == DigitsToNat(ip \o fp)
                 ex == IF ~hasExp THEN 0
                       ELSE IF es[1] = "-" THEN 0 - DigitsToNat(ed) ELSE DigitsToNat(ed)
             IN  [ok |-> TRUE,
                  value |-> IF mant = 0 THEN Zero(neg)
                            ELSE Scale10(Normalise(neg, mant, 0), ex - Len(fp))]

ParseFloat(str) ==
    LET s == Strip(str)
        signed == s # <<>> /\ s[1] \in {"+", "-"}
        neg == signed /\ s[1] = "-"
        body == IF signed THEN Tail(s) ELSE s
        low == Lower(body)
        es == {i \in DOMAIN body : body[i] \in {"e", "E"}}
    IN  IF low \in {<<"i", "n", "f">>, <<"i", "n", "f", "i", "n", "i", "t", "y">>}
        THEN [ok |-> TRUE, value |-> Inf(neg)]
        ELSE IF low = <<"n", "a", "n">>
        THEN [ok |-> TRUE, value |-> NaN]
        ELSE IF es = {}
        THEN ParseDecimal(neg, body, FALSE, <<>>)
        ELSE LET i == CHOOSE i \in es : \A j \in es : i <= j
             IN  ParseDecimal(neg, SubSeq(body, 1, i - 1), TRUE,
                              SubSeq(body, i + 1, Len(body)))

(***************************************************************************)
(* main, from val = args.value.strip() on.  A printed line is kept as the  *)
(* f-string's arguments; a diagnostic is [kind, text]: the message of      *)
(* sys.exit(e), or the traceback of an exception nothing catches.          *)
(***************************************************************************)
Alphabet == {"A", "b", "e", "f", "#", "-", "0", "5", ".", "i", "n", " "}

Inputs == UNION { [1..n -> Alphabet] : n \in 0..MaxLen }

Init ==
    /\ pc = "strip"
    /\ input \in Inputs
    /\ val = None /\ midi = None /\ freq = None /\ cents = None
    /\ stdout = <<>> /\ stderr = <<>> /\ exitcode = <<>> /\ called = {}
    /\ arg = None /\ ret = None

\* sys.exit(e): str(e) goes to stderr and the exit status is 1
SysExit(msg) ==
    /\ stderr' = Append(stderr, [kind |-> "exit message", text |-> msg])
    /\ exitcode' = <<1>>
    /\ pc' = "done"

\* an exception no handler catches: the interpreter writes the traceback
\* and the exit status is 1
Uncaught(error) ==
    /\ stderr' = Append(stderr, [kind |-> "traceback", text |-> <<error>>])
    /\ exitcode' = <<1>>
    /\ pc' = "done"

\* line 57
MainStrip ==
    /\ pc = "strip"
    /\ val' = Strip(input)
    /\ pc' = "float"
    /\ UNCHANGED <<arg, ret, input, midi, freq, cents, stdout, stderr, exitcode, called>>

\* line 61 with freq < 0 for freq <= 0
NotAFrequency_Strict(x) == x.cls # "nan" /\ x.neg /\ ~IsZero(x)

\* line 61: if freq <= 0: raise ValueError
NotAFrequency(x) == LeZero(x)

\* lines 60-62: float(val) or the check raises ValueError, caught at line 67
MainFloat ==
    /\ pc = "float"
    /\ LET r == ParseFloat(val)
       IN  IF ~r.ok THEN pc' = "note" /\ freq' = freq
           ELSE /\ freq' = r.value
                /\ pc' = IF NotAFrequency(r.value) THEN "note" ELSE "freq_to_midi"
    /\ UNCHANGED <<arg, ret, input, val, midi, cents, stdout, stderr, exitcode, called>>

\* line 63; a ValueError is caught at line 67, an OverflowError by nothing
MainFreqToMidi ==
    /\ pc = "freq_to_midi"
    /\ called' = called \cup {"freq_to_midi"}
    /\ LET r == freq_to_midi(freq)
       IN  IF r.ok
           THEN /\ midi' = r.midi /\ cents' = r.cents /\ pc' = "print note"
                /\ UNCHANGED <<stderr, exitcode>>
           ELSE IF r.error = "ValueError"
           THEN pc' = "note" /\ UNCHANGED <<midi, cents, stderr, exitcode>>
           ELSE Uncaught(r.error) /\ UNCHANGED <<midi, cents>>
    /\ UNCHANGED <<arg, ret, input, val, freq, stdout>>

\* lines 64-65
MainPrintNote ==
    /\ pc = "print note"
    /\ called' = called \cup {"midi_to_note"}
    /\ stdout' = Append(stdout, [note |-> midi_to_note(midi), cents |-> cents])
    /\ pc' = "return"
    /\ UNCHANGED <<arg, ret, input, val, midi, freq, cents, stderr, exitcode>>

\* lines 67-72 with the line printed before the parser's verdict is known
MainNoteToMidi_PrintFirst ==
    /\ pc = "note"
    /\ called' = called \cup {"note_to_midi"}
    /\ stdout' = Append(stdout, [hz |-> val])
    /\ LET r == note_to_midi(val)
       IN  IF r.ok
           THEN midi' = r.value /\ pc' = "midi_to_freq" /\ UNCHANGED <<stderr, exitcode>>
           ELSE SysExit(r.msg) /\ midi' = midi
    /\ UNCHANGED <<arg, ret, input, val, freq, cents>>

\* lines 67-72
MainNoteToMidi ==
    /\ pc = "note"
    /\ called' = called \cup {"note_to_midi"}
    /\ LET r == note_to_midi(val)
       IN  IF r.ok
           THEN midi' = r.value /\ pc' = "midi_to_freq" /\ UNCHANGED <<stderr, exitcode>>
           ELSE SysExit(r.msg) /\ midi' = midi
    /\ UNCHANGED <<arg, ret, input, val, freq, cents, stdout>>

\* line 73, inside the handler of line 67: nothing catches its OverflowError
MainMidiToFreq ==
    /\ pc = "midi_to_freq"
    /\ called' = called \cup {"midi_to_freq"}
    /\ LET r == midi_to_freq(midi)
       IN  IF r.ok
           THEN freq' = r.freq /\ pc' = "print hz" /\ UNCHANGED <<stderr, exitcode>>
           ELSE Uncaught(r.error) /\ freq' = freq
    /\ UNCHANGED <<arg, ret, input, val, midi, cents, stdout>>

\* line 74
MainPrintHz ==
    /\ pc = "print hz"
    /\ stdout' = Append(stdout, [hz |-> freq])
    /\ pc' = "return"
    /\ UNCHANGED <<arg, ret, input, val, midi, freq, cents, stderr, exitcode, called>>

\* main returns and the process ends with status 0
MainReturn ==
    /\ pc = "return"
    /\ exitcode' = <<0>>
    /\ pc' = "done"
    /\ UNCHANGED <<arg, ret, input, val, midi, freq, cents, stdout, stderr, called>>

Next ==
    \/ MainStrip
    \/ MainFloat
    \/ MainFreqToMidi
    \/ MainPrintNote
    \/ MainNoteToMidi
    \/ MainMidiToFreq
    \/ MainPrintHz
    \/ MainReturn

Spec == Init /\ [][Next]_vars

(***************************************************************************)
(* freq_to_midi on its own, applied to every positive float within ExpSpan *)
(* binades of A4_FREQ's.                                                   *)
(***************************************************************************)
Frequencies ==
    { Fin(FALSE, m, e) : m \in 2^(MantBits - 1)..(2^MantBits - 1),
                          e \in (A4_FREQ.e - ExpSpan)..(A4_FREQ.e + ExpSpan) }

InitFreq ==
    /\ pc = "call freq_to_midi"
    /\ arg \in Frequencies
    /\ ret = None
    /\ Idle

CallFreqToMidi ==
    /\ pc = "call freq_to_midi"
    /\ ret' = freq_to_midi(arg)
    /\ pc' = "returned"
    /\ UNCHANGED <<arg, input, val, midi, freq, cents, stdout, stderr, exitcode, called>>

NextFreq == CallFreqToMidi

SpecFreq == InitFreq /\ [][NextFreq]_vars

(***************************************************************************)
(* Claims about note_to_midi and midi_to_note, checked under SpecNote.     *)
(***************************************************************************)
Returned(name) == pc = "returned" /\ arg = name

\* C1 as stated: note_to_midi("A-1") returns 0 and midi_to_note(0) returns
\* "A-1".
C1_AsStated ==
    /\ Returned(<<"A", "-", "1">>) => ret.ok /\ ret.value = 0
    /\ (pc = "formatted" /\ arg = 0) => ret.name = <<"A", "-", "1">>

\* C1, amended: note_to_midi("A-1") returns 9 and midi_to_note(9) returns
\* "A-1"; the name of pitch number 0 is "C-1": midi_to_note(0) returns "C-1"
\* and note_to_midi("C-1") returns 0.
C1_NegativeOctave ==
    /\ Returned(<<"A", "-", "1">>) => ret.ok /\ ret.value = 9
    /\ Returned(<<"C", "-", "1">>) => ret.ok /\ ret.value = 0
    /\ (pc = "formatted" /\ arg = 9) => ret.name = <<"A", "-", "1">>
    /\ (pc = "formatted" /\ arg = 0) => ret.name = <<"C", "-", "1">>

C1_Witness == Returned(<<"A", "-", "1">>) /\ ret.ok /\ ret.value = 9

\* the claim's table: the letter of the sharp spelling of <letter> flat, the
\* five entries of the enharmonic mapping and the fallback for C and F
C5_SharpLetter(l) ==
    CASE l = "D" -> "C" [] l = "E" -> "D" [] l = "G" -> "F" [] l = "A" -> "G"
      [] l = "B" -> "A" [] l = "C" -> "C" [] l = "F" -> "F"

\* index of <letter># in the canonical sequence
C5_SharpIndex(l) ==
    CASE l = "C" -> 1 [] l = "D" -> 3 [] l = "F" -> 6 [] l = "G" -> 8 [] l = "A" -> 10

IsFlatName(name) == Len(name) >= 3 /\ name[2] \in {"b", "B", FLAT}

\* C5: for every letter A-G and every octave o, <letter> flat o parses to the
\* pitch number of its sharp spelling: Db = C#, Eb = D#, Gb = F#, Ab = G#,
\* Bb = A# (the table), Cb = C# and Fb = F# (the fallback).
C5_FlatResolution ==
    (pc = "returned" /\ IsFlatName(arg)) =>
        LET sharp == C5_SharpLetter(UpperChar(arg[1]))
            octave == SubSeq(arg, 3, Len(arg))
        IN  /\ ret.ok
            /\ ret = note_to_midi(<<sharp, "#">> \o octave)
            /\ ret.value = 12 * (StrToInt(octave) + 1) + C5_SharpIndex(sharp)

C5_Witness ==
    \/ Returned(<<"C", "b", "4">>) /\ ret.ok /\ ret.value = 61
    \/ Returned(<<"d", FLAT, "-", "1">>) /\ ret.ok /\ ret.value = 1

\* C9: for every string of the note-name shape the normalised pitch class is
\* one of the 12 canonical names, so the lookup succeeds and the result is
\* 12 * (octave + 1) + index.
C9_CanonicalClass ==
    (pc = "returned" /\ arg \in NoteNames) =>
        LET m == NoteMatch(Replace(Replace(arg, SHARP, "#"), FLAT, "b"))
        IN  /\ PitchClassOf(m.letter, m.accidental) \in Range(NOTE_NAMES)
            /\ ret.ok
            /\ \E i \in 0..11 : ret.value = 12 * (StrToInt(m.octave) + 1) + i

\* C10: for every pitch number p, negative ones included, midi_to_note(p) is
\* the canonical name of index i followed by the octave o, where i in 0..11
\* and o are the floor remainder and quotient: p = 12 * (o + 1) + i; and
\* note_to_midi(midi_to_note(p)) = p.
C10_NameRoundTrip ==
    /\ pc \in {"formatted", "parsed back"} =>
          \E i \in 0..11, o \in (0 - MaxPitch - 2)..(MaxPitch + 2) :
              /\ arg = 12 * (o + 1) + i
              /\ ret.name = NOTE_NAMES[i + 1] \o IntToStr(o)
    /\ pc = "parsed back" => ret.parsed.ok /\ ret.parsed.value = arg

C10_Witness ==
    /\ pc = "parsed back" /\ arg = 0 - 13
    /\ ret.name = <<"B", "-", "3">> /\ ret.parsed.value = 0 - 13

(***************************************************************************)
(* Claims about main, checked under Spec.                                  *)
(***************************************************************************)
Failed == pc = "done" /\ exitcode # <<0>>

\* C2: whenever the note-name path fails, the diagnostic handed to the
\* process exit contains the string given to the parser verbatim.
C2_MessageNamesInput ==
    (Failed /\ "note_to_midi" \in called) =>
        Len(stderr) = 1 /\ Contains(stderr[1].text, val)

\* C3: a run ends with a non-zero exit status only if the note parser was
\* called on the input and rejected it.
C3_OnlyParserFails ==
    Failed =>
        /\ "note_to_midi" \in called
        /\ ~note_to_midi(val).ok
        /\ stderr = <<[kind |-> "exit message", text |-> note_to_midi(val).msg]>>

IsNonPositiveNumber(str) == ParseFloat(str).ok /\ LeZero(ParseFloat(str).value)

\* C4: an input that is a number <= 0 is no note name; the run never calls
\* freq_to_midi on it, hands it to note_to_midi, and ends in the "Bad note"
\* failure with nothing printed.
C4_NonPositiveRejected ==
    (pc \notin {"strip", "float"} /\ IsNonPositiveNumber(val)) =>
        /\ "freq_to_midi" \notin called
        /\ ~NoteMatch(val).matched
        /\ pc \in {"note", "done"}
        /\ pc = "done" =>
              /\ "note_to_midi" \in called
              /\ stdout = <<>>
              /\ exitcode = <<1>>
              /\ stderr = <<[kind |-> "exit message", text |-> BadNoteMsg(val)]>>

C4_Witness ==
    /\ pc = "done" /\ val \in {<<"-", "5">>, <<"0">>, <<"-", "i", "n", "f">>}
    /\ "note_to_midi" \in called /\ exitcode = <<1>>

\* position of the run on its way to the end
C6_Rank(p) ==
    CASE p = "strip" -> 0 [] p = "float" -> 1 [] p = "freq_to_midi" -> 2
      [] p = "note" -> 3 [] p = "midi_to_freq" -> 4 [] p = "print note" -> 5
      [] p = "print hz" -> 5 [] p = "return" -> 6 [] p = "done" -> 7

\* the run is at a line of main: every one of them has its action in Next,
\* whose only guard is the position and whose branches cover every result
C6_CanStep ==
    pc \in {"strip", "float", "freq_to_midi", "print note", "note", "midi_to_freq",
            "print hz", "return"}

C6_State ==
    /\ pc = "done" =>
          \/ exitcode = <<0>> /\ Len(stdout) = 1 /\ stderr = <<>>
          \/ /\ Len(exitcode) = 1 /\ exitcode # <<0>>
             /\ stdout = <<>> /\ Len(stderr) = 1
    /\ pc # "done" =>
          /\ exitcode = <<>> /\ stderr = <<>>
          /\ C6_CanStep

\* C6: every run ends, after finitely many steps, in exactly one of two
\* outcomes: exit status 0 with exactly one line on standard output and no
\* diagnostic, or a non-zero exit status with one diagnostic and nothing on
\* standard output; no step prints a line before or together with a failure.
C6_OneOutcome ==
    /\ []C6_State
    /\ [][C6_Rank(pc') > C6_Rank(pc)]_vars
    /\ [][stdout # <<>> => exitcode' \in {<<>>, <<0>>}]_vars

C6_Witness ==
    /\ pc = "done" /\ exitcode = <<1>> /\ stdout = <<>> /\ Len(stderr) = 1
    /\ "note_to_midi" \in called

(***************************************************************************)
(* Claims about freq_to_midi, checked under SpecFreq.                      *)
(***************************************************************************)
\* C8 as stated: cents is strictly greater than -50 and at most +50.
C8_AsStated ==
    (pc = "returned" /\ ret.ok) =>
        ret.cents > (0 - 50) * LogOne /\ ret.cents <= 50 * LogOne

\* C8, amended: cents is at least -50 and at most +50; it is -50 or +50
\* only for a value halfway between two integers, where the even one is
\* chosen (-50 when the integer below is odd).
C8_CentsRange ==
    (pc = "returned" /\ ret.ok) =>
        /\ ret.cents >= (0 - 50) * LogOne /\ ret.cents <= 50 * LogOne
        /\ ret.cents \in {(0 - 50) * LogOne, 50 * LogOne} => ret.midi % 2 = 0

C8_Witness == pc = "returned" /\ ret.ok /\ ret.cents = (0 - 50) * LogOne

=============================================================================
